---- MODULE Spec2Model ----
(***************************************************************************)
(* Model of the XML subtitle converter (src/src/index.js, src/src/cli.js). *)
(*                                                                         *)
(* An input file is modelled by what the regular expressions of            *)
(* extractSubtitlesWithRegex and the tickRate pattern read from it: the    *)
(* optional ttp:tickRate attribute and the list of <p> elements, each with *)
(* its begin and end attributes (the decimal digits in front of the "t")   *)
(* and its text.  Array positions (i, j, k, startJ, endJ, bestMatchIndex)  *)
(* keep the 0-based values of the JavaScript code.                         *)
(***************************************************************************)
EXTENDS Integers, Sequences, FiniteSets, TLC

(* ------------------------------ bounds -------------------------------- *)
\* longest first / second input file drawn freely from BeginChoices
MaxA == 2
MaxB == 2
\* length of the long second files
LongLen == 12

(* ------------------------- program constants -------------------------- *)
DefaultTickRate == 10000000
searchWindow_OneMore == 10 + 1
searchWindow == 10
Backtrack == 2
MaxGapTicks_Double == 2 * 10000000
MaxGapTicks == 10000000

(* ------------------------------ helpers ------------------------------- *)
\* parseInt(x.replace("t", "")) on a string of decimal digits followed by t
RECURSIVE parseInt(_)
parseInt(d) ==
  IF Len(d) = 0 THEN 0
  ELSE parseInt(SubSeq(d, 1, Len(d) - 1)) * 10 + d[Len(d)]

Abs(x) == IF x < 0 THEN 0 - x ELSE x
Max(a, b) == IF a > b THEN a ELSE b
Min(a, b) == IF a < b THEN a ELSE b

\* Array.prototype.sort with a comparator (a, b) => key(a) - key(b), given
\* the keys of the elements: the position each output slot takes its
\* element from.  Ascending in key, elements with equal keys keep their
\* input order (the sort is stable from Node.js 11 on; the README asks for
\* v12).
StableSortOrder_Descending(keys) ==
  LET n == Len(keys)
      rank(x) == Cardinality({y \in 1..n :
                     \/ keys[y] > keys[x]
                     \/ (keys[y] = keys[x] /\ y < x)}) + 1
  IN [p \in 1..n |-> CHOOSE x \in 1..n : rank(x) = p]

StableSortOrder(keys) ==
  LET n == Len(keys)
      rank(x) == Cardinality({y \in 1..n :
                     \/ keys[y] < keys[x]
                     \/ (keys[y] = keys[x] /\ y < x)}) + 1
  IN [p \in 1..n |-> CHOOSE x \in 1..n : rank(x) = p]

\* convertTimeToSRT: hours, minutes, seconds, milliseconds of
\* timeValue / tickRate, every part truncated by Math.floor.  The three
\* decimals of the fraction are produced digit by digit.  With tickRate 0
\* the quotient is Infinity (NaN for 0 / 0) and the parts print as such.
convertTimeToSRT(time, tickRate) ==
  IF tickRate = 0
  THEN IF parseInt(time) = 0 THEN << "NaN", "NaN", "NaN", "NaN" >>
       ELSE << "Infinity", "NaN", "NaN", "NaN" >>
  ELSE
  LET timeValue == parseInt(time)
      whole == timeValue \div tickRate
      r0 == timeValue % tickRate
      d1 == (r0 * 10) \div tickRate
      r1 == (r0 * 10) % tickRate
      d2 == (r1 * 10) \div tickRate
      r2 == (r1 * 10) % tickRate
      d3 == (r2 * 10) \div tickRate
  IN << whole \div 3600, (whole % 3600) \div 60, whole % 60,
        d1 * 100 + d2 * 10 + d3 >>

(* ------------------------------ inputs -------------------------------- *)
\* begin / end attribute pairs of a <p> element: 0t, 2700000t, 10000000t
CueTimes ==
  { << <<0>>,               <<5,0,0,0,0,0,0>> >>,
    << <<2,7,0,0,0,0,0>>,   <<5,4,0,0,0,0,0>> >>,
    << <<1,0,0,0,0,0,0,0>>, <<1,2,7,0,0,0,0,0>> >> }

\* the ttp:tickRate attribute: absent, or present with its digits
TickRateAttrs == { <<>>, << <<2,7,0,0,0,0,0>> >> }

\* the k-th <p> element of a file of track tr
MkCue(tr, k, bt) == [begin |-> bt[1], end |-> bt[2], text |-> <<tr, k>>]

CueLists(tr, maxLen) ==
  UNION { { [k \in 1..n |-> MkCue(tr, k, f[k])] : f \in [1..n -> CueTimes] }
          : n \in 0..maxLen }

\* a long second file: LongLen cues, the first z of them at 0t and the
\* others at 10000000t
LongLists(tr) ==
  { [k \in 1..LongLen |->
       MkCue(tr, k, IF k <= z THEN << <<0>>, <<5,0,0,0,0,0,0>> >>
                    ELSE << <<1,0,0,0,0,0,0,0>>, <<1,2,7,0,0,0,0,0>> >>)]
    : z \in {2, searchWindow} }

\* the input files: every list of up to two cues, the longer lists whose
\* cues begin at 0t or 10000000t, and the long lists
Files(tr, maxLen) ==
  { [tickRate |-> a, p |-> c] :
      a \in TickRateAttrs,
      c \in { l \in CueLists(tr, maxLen) :
                Len(l) > 2 => \A k \in 1..Len(l) :
                                l[k].begin # <<2,7,0,0,0,0,0>> }
            \cup LongLists(tr) }

\* files that exercise the search window of the paired functions: long
\* files whose first cue at 10000000t is at index 2, searchWindow - 1 or
\* searchWindow, a file with cues at 0 s and 10 s, a file with cues at
\* 0.2 s and 20 s (at the default tick rate), a file with two cues at
\* 10000000t, and the files of one cue
WindowLists(tr) ==
  { [k \in 1..LongLen |->
       MkCue(tr, k, IF k <= z THEN << <<0>>, <<5,0,0,0,0,0,0>> >>
                    ELSE << <<1,0,0,0,0,0,0,0>>, <<1,2,7,0,0,0,0,0>> >>)]
    : z \in {2, searchWindow - 1, searchWindow} }
  \cup
  { << MkCue(tr, 1, << <<0>>, <<5,0,0,0,0,0,0>> >>),
       MkCue(tr, 2, << <<1,0,0,0,0,0,0,0,0>>, <<1,0,5,0,0,0,0,0,0>> >>) >>,
    << MkCue(tr, 1, << <<2,0,0,0,0,0,0>>, <<5,0,0,0,0,0,0>> >>),
       MkCue(tr, 2, << <<2,0,0,0,0,0,0,0,0>>, <<2,0,5,0,0,0,0,0,0>> >>) >>,
    << MkCue(tr, 1, << <<1,0,0,0,0,0,0,0>>, <<1,2,7,0,0,0,0,0>> >>),
       MkCue(tr, 2, << <<1,0,0,0,0,0,0,0>>, <<1,2,7,0,0,0,0,0>> >>) >> }
  \cup CueLists(tr, 1)

WindowFiles(tr) ==
  { [tickRate |-> a, p |-> c] : a \in TickRateAttrs, c \in WindowLists(tr) }

\* files with attributes the regular expressions do not accept or the time
\* conversion cannot divide by: cues with begin 10000000t, "-5t" or "xt",
\* up to two per file; ttp:tickRate absent, "0" or "-1"
MalformedCueTimes ==
  { << <<1,0,0,0,0,0,0,0>>, <<1,2,7,0,0,0,0,0>> >>,
    << <<45, 5>>,           <<5,0,0,0,0,0,0>> >>,
    << <<120>>,             <<5,0,0,0,0,0,0>> >> }

MalformedFiles(tr) ==
  { [tickRate |-> a, p |-> [k \in 1..n |-> MkCue(tr, k, f[k])]] :
      a \in { <<>>, << <<0>> >>, << <<45, 1>> >> },
      n \in 0..2, f \in [1..2 -> MalformedCueTimes] }

\* the files of the concurrent program: a file of two cues out of start
\* order and a file of one cue, with the default or a given tick rate
ConcurrentFiles(tr) ==
  { [tickRate |-> a, p |-> c] :
      a \in TickRateAttrs,
      c \in { << MkCue(tr, 1, << <<1,0,0,0,0,0,0,0>>, <<1,2,7,0,0,0,0,0>> >>),
                 MkCue(tr, 2, << <<0>>, <<5,0,0,0,0,0,0>> >>) >>,
              << MkCue(tr, 1, << <<2,7,0,0,0,0,0>>, <<5,4,0,0,0,0,0>> >>) >> } }

RerunFiles(tr) ==
  { [tickRate |-> a, p |-> c] :
      a \in TickRateAttrs, c \in WindowLists(tr) \cup CueLists(tr, 2) }

(* ------------------------------- state -------------------------------- *)
VARIABLES
  file1, file2,      \* the two input files (xmlFile1 / kr, xmlFile2 / ch)
  caller,            \* who started the work: the API or a CLI command
  cliStatus,         \* "none", "running", "exit0", "exit1"
  fn,                \* the function of index.js that is executing
  modeArg,           \* the mode argument createCombinedSRT/TXT received
  src,               \* convertToSRT/TXT: which input file is xmlFilePath
  outPath,           \* outputFilePath of the executing function
  pc,                \* position inside the executing function
  xmlData1, xmlData2,
  tickRate1, tickRate2,
  subtitles1, subtitles2,
  mergedSubtitles,
  i, j, index,
  startJ, endJ, bestMatchIndex, minTimeDiff,   \* of the last iteration
  examined,          \* the values k took in the last inner loop
  comparisons,       \* inner-loop iterations of the pass so far
  content,           \* srtContent / txtContent, one record per entry
  out,               \* the output files
  log,               \* what console.log / console.error printed
  parked             \* an invocation suspended at an await, if any

vars == << file1, file2, caller, cliStatus, fn, modeArg, src, outPath, pc,
           xmlData1, xmlData2, tickRate1, tickRate2, subtitles1, subtitles2,
           mergedSubtitles, i, j, index, startJ, endJ, bestMatchIndex,
           minTimeDiff, examined, comparisons, content, out, log, parked >>

locals == << xmlData1, xmlData2, tickRate1, tickRate2, subtitles1,
             subtitles2, mergedSubtitles, i, j, index, startJ, endJ,
             bestMatchIndex, minTimeDiff, examined, comparisons, content >>

OutPaths == { "kr.srt", "kr.txt", "ch.srt", "ch.txt",
              "combined.srt", "combined.txt" }

ApiFns == { "convertToSRT", "convertToTXT",
            "createCombinedSRT", "createCombinedTXT" }
PairedFns == { "createCombinedSRTPaired", "createCombinedTXTPaired" }
TimelineFns == { "createCombinedSRTTimeline", "createCombinedTXTTimeline" }
ConvertFns == { "convertToSRT", "convertToTXT" }
SrtFns == { "convertToSRT", "createCombinedSRTPaired",
            "createCombinedSRTTimeline" }

\* the values a caller can pass as mode; "undefined" takes the default
ModeArgs == { "undefined", "paired", "timeline", "other" }

NoFile == [tickRate |-> <<>>, p |-> <<>>]

Init ==
  /\ file1 \in Files("a", MaxA)
  /\ file2 \in Files("b", MaxB)
  /\ caller = [cmd |-> "none", flag |-> "none", step |-> 0]
  /\ cliStatus = "none"
  /\ fn = "none"
  /\ modeArg = "undefined"
  /\ src = 0
  /\ outPath = "none"
  /\ pc = "idle"
  /\ xmlData1 = NoFile /\ xmlData2 = NoFile
  /\ tickRate1 = 0 /\ tickRate2 = 0
  /\ subtitles1 = <<>> /\ subtitles2 = <<>>
  /\ mergedSubtitles = <<>>
  /\ i = 0 /\ j = 0 /\ index = 1
  /\ startJ = 0 /\ endJ = 0 /\ bestMatchIndex = -1 /\ minTimeDiff = -1
  /\ examined = <<>> /\ comparisons = 0
  /\ content = <<>>
  /\ out = [q \in OutPaths |-> [written |-> FALSE, content |-> <<>>]]
  /\ log = <<>>
  /\ parked = <<>>

\* nothing has been called yet
NothingCalled ==
  /\ caller = [cmd |-> "none", flag |-> "none", step |-> 0]
  /\ cliStatus = "none"
  /\ fn = "none"
  /\ modeArg = "undefined"
  /\ src = 0
  /\ outPath = "none"
  /\ pc = "idle"
  /\ xmlData1 = NoFile /\ xmlData2 = NoFile
  /\ tickRate1 = 0 /\ tickRate2 = 0
  /\ subtitles1 = <<>> /\ subtitles2 = <<>>
  /\ mergedSubtitles = <<>>
  /\ i = 0 /\ j = 0 /\ index = 1
  /\ startJ = 0 /\ endJ = 0 /\ bestMatchIndex = -1 /\ minTimeDiff = -1
  /\ examined = <<>> /\ comparisons = 0
  /\ content = <<>>
  /\ out = [q \in OutPaths |-> [written |-> FALSE, content |-> <<>>]]
  /\ log = <<>>
  /\ parked = <<>>

\* the same program started on the files that exercise the search window
InitWindow ==
  /\ file1 \in WindowFiles("a")
  /\ file2 \in WindowFiles("b")
  /\ NothingCalled

\* the same program started on the malformed files
InitMalformed ==
  /\ file1 \in MalformedFiles("a")
  /\ file2 \in MalformedFiles("b")
  /\ NothingCalled

\* the concurrent program before it calls anything
InitConcurrent ==
  /\ file1 \in ConcurrentFiles("a")
  /\ file2 \in ConcurrentFiles("b")
  /\ NothingCalled

\* ... and on those files and the files of up to two cues
InitRerun ==
  /\ file1 \in RerunFiles("a")
  /\ file2 \in RerunFiles("b")
  /\ NothingCalled

(* --------------------------- pure functions --------------------------- *)
\* \d+ : one or more decimal digits; a character that is not a digit is
\* modelled by its character code (45 for "-", 120 for "x")
IsDigits(d) == Len(d) >= 1 /\ \A c \in 1..Len(d) : d[c] \in 0..9

\* xmlData.match(/ttp:tickRate="(\d+)"/) ? parseInt(match[1]) : 10000000
TickRateOf(xmlData) ==
  IF Len(xmlData.tickRate) = 0 \/ ~IsDigits(xmlData.tickRate[1])
  THEN DefaultTickRate
  ELSE parseInt(xmlData.tickRate[1])

\* begin="(\d+t)" / end="(\d+t)": one or more decimal digits before the t
MatchesSubtitleRegex(p) == IsDigits(p.begin) /\ IsDigits(p.end)

\* extractSubtitlesWithRegex: one {begin, end, text} per <p> the regular
\* expression matches, in document order; a <p> it does not match is
\* passed over
extractSubtitlesWithRegex(xmlData) ==
  LET matched == SelectSeq(xmlData.p, MatchesSubtitleRegex)
  IN [k \in 1..Len(matched) |->
        [begin |-> matched[k].begin, end |-> matched[k].end,
         text |-> matched[k].text]]

BeginTicks(sub) == parseInt(sub.begin)

\* subtitles.sort((a, b) => parseInt(a.begin...) - parseInt(b.begin...))
SortByBegin_Unsorted(subs) == subs

SortByBegin(subs) ==
  LET order == StableSortOrder([k \in 1..Len(subs) |-> BeginTicks(subs[k])])
  IN [p \in 1..Len(subs) |-> subs[order[p]]]

\* the merged array of the timeline functions before it is sorted; the
\* TXT variant stores no tickRate (withRate = FALSE)
MergeSubtitles_DropSecond(subs1, subs2, rate1, rate2, withRate) ==
  [k \in 1..Len(subs1) |->
     [begin |-> subs1[k].begin, end |-> subs1[k].end, text |-> subs1[k].text,
      language |-> "language1",
      tickRate |-> IF withRate THEN rate1 ELSE 0,
      startTime |-> parseInt(subs1[k].begin)]]

MergeSubtitles(subs1, subs2, rate1, rate2, withRate) ==
  [k \in 1..Len(subs1) |->
     [begin |-> subs1[k].begin, end |-> subs1[k].end, text |-> subs1[k].text,
      language |-> "language1",
      tickRate |-> IF withRate THEN rate1 ELSE 0,
      startTime |-> parseInt(subs1[k].begin)]]
  \o
  [k \in 1..Len(subs2) |->
     [begin |-> subs2[k].begin, end |-> subs2[k].end, text |-> subs2[k].text,
      language |-> "language2",
      tickRate |-> IF withRate THEN rate2 ELSE 0,
      startTime |-> parseInt(subs2[k].begin)]]

StartTimeOf(sub) == sub.startTime

\* mergedSubtitles.sort((a, b) => a.startTime - b.startTime)
SortMerged_Unstable(merged) ==
  LET n == Len(merged)
      rank(x) == Cardinality({y \in 1..n :
                     \/ merged[y].startTime < merged[x].startTime
                     \/ (merged[y].startTime = merged[x].startTime /\ y > x)})
                 + 1
  IN [p \in 1..n |-> merged[CHOOSE x \in 1..n : rank(x) = p]]

SortMerged(merged) ==
  LET order == StableSortOrder([k \in 1..Len(merged) |->
                                  StartTimeOf(merged[k])])
  IN [p \in 1..Len(merged) |-> merged[order[p]]]

\* the test timeDiff < minTimeDiff; minTimeDiff = -1 stands for its
\* initial value Number.MAX_SAFE_INTEGER, which every difference is below
BetterThan_OrEqual(timeDiff, minDiff) == minDiff = -1 \/ timeDiff <= minDiff

BetterThan(timeDiff, minDiff) == minDiff = -1 \/ timeDiff < minDiff

\* the inner loop for (k = startJ; k < endJ; k++) of the paired functions;
\* examined collects the values k takes
NoBest_Zero == [minTimeDiff |-> 0, bestMatchIndex |-> -1, examined |-> <<>>]

NoBest == [minTimeDiff |-> -1, bestMatchIndex |-> -1, examined |-> <<>>]

RECURSIVE ScanWindow(_, _, _, _, _)
ScanWindow(k, kEnd, startTime1, subs2, best) ==
  IF k >= kEnd THEN best
  ELSE LET startTime2 == parseInt(subs2[k + 1].begin)
           timeDiff == Abs(startTime1 - startTime2)
       IN IF BetterThan(timeDiff, best.minTimeDiff)
          THEN ScanWindow(k + 1, kEnd, startTime1, subs2,
                          [minTimeDiff |-> timeDiff, bestMatchIndex |-> k,
                           examined |-> Append(best.examined, k)])
          ELSE ScanWindow(k + 1, kEnd, startTime1, subs2,
                          [best EXCEPT !.examined = Append(@, k)])

WindowStart_FromZero(jj) == 0

\* const startJ = Math.max(0, j - 2)
WindowStart(jj) == Max(0, jj - Backtrack)

WindowEnd_WholeArray(sJ, len2) == len2

\* const endJ = Math.min(subtitles2.length, startJ + searchWindow)
WindowEnd(sJ, len2) == Min(len2, sJ + searchWindow)

Accepts_Inclusive(best) ==
  best.bestMatchIndex # -1 /\ best.minTimeDiff <= MaxGapTicks

\* if (bestMatch && minTimeDiff < 10000000)
Accepts(best) == best.bestMatchIndex # -1 /\ best.minTimeDiff < MaxGapTicks

\* the text blocks of one paired entry: subtitle1.text, then bestMatch.text
\* if the match is accepted
PairedTexts_EmptySecond(subtitle1, subs2, best) ==
  IF Accepts(best)
  THEN << subtitle1.text, subs2[best.bestMatchIndex + 1].text >>
  ELSE << subtitle1.text, <<>> >>

PairedTexts(subtitle1, subs2, best) ==
  IF Accepts(best)
  THEN << subtitle1.text, subs2[best.bestMatchIndex + 1].text >>
  ELSE << subtitle1.text >>

\* createCombinedSRT / createCombinedTXT: the function they delegate to
Dispatch(f, mode) ==
  IF f = "createCombinedSRT"
  THEN IF mode = "paired" THEN "createCombinedSRTPaired"
       ELSE "createCombinedSRTTimeline"
  ELSE IF f = "createCombinedTXT"
  THEN IF mode = "paired" THEN "createCombinedTXTPaired"
       ELSE "createCombinedTXTTimeline"
  ELSE f

\* one block of srtContent / txtContent
SrtEntry_ZeroBased(idx, begin, end, rate, texts) ==
  [index |-> idx - 1, start |-> convertTimeToSRT(begin, rate),
   end |-> convertTimeToSRT(end, rate), texts |-> texts]

SrtEntry(idx, begin, end, rate, texts) ==
  [index |-> idx, start |-> convertTimeToSRT(begin, rate),
   end |-> convertTimeToSRT(end, rate), texts |-> texts]

TxtEntry_FirstOnly(texts) == [texts |-> << texts[1] >>]

TxtEntry(texts) == [texts |-> texts]

(* ------------------------------ actions ------------------------------- *)
\* the calls a CLI command makes, in order (cli.js passes no mode)
CliSteps(cmd) ==
  IF cmd = "combine"
  THEN << [f |-> "createCombinedSRT", src |-> 0, path |-> "combined.srt"],
          [f |-> "createCombinedTXT", src |-> 0, path |-> "combined.txt"] >>
  ELSE << [f |-> "convertToSRT", src |-> 1, path |-> "kr.srt"],
          [f |-> "convertToTXT", src |-> 1, path |-> "kr.txt"],
          [f |-> "convertToSRT", src |-> 2, path |-> "ch.srt"],
          [f |-> "convertToTXT", src |-> 2, path |-> "ch.txt"],
          [f |-> "createCombinedSRT", src |-> 0, path |-> "combined.srt"],
          [f |-> "createCombinedTXT", src |-> 0, path |-> "combined.txt"] >>

\* a line printed by console.log (level "log") or console.error ("error")
LogLine(level, what, arg) == [level |-> level, what |-> what, arg |-> arg]

\* a function of index.js is entered: it runs up to its first await
Enter(f, mode, s, path) ==
  /\ fn' = Dispatch(f, mode)
  /\ modeArg' = mode
  /\ src' = s
  /\ outPath' = path
  /\ pc' = "read1"
  /\ xmlData1' = NoFile /\ xmlData2' = NoFile
  /\ tickRate1' = 0 /\ tickRate2' = 0
  /\ subtitles1' = <<>> /\ subtitles2' = <<>>
  /\ mergedSubtitles' = <<>>
  /\ i' = 0 /\ j' = 0 /\ index' = 1
  /\ startJ' = 0 /\ endJ' = 0 /\ bestMatchIndex' = -1 /\ minTimeDiff' = -1
  /\ examined' = <<>> /\ comparisons' = 0
  /\ content' = <<>>

\* a program calls an exported function directly
ApiCall ==
  /\ pc = "idle" /\ caller.cmd = "none" /\ cliStatus = "none"
  /\ \E f \in ApiFns, s \in {1, 2}, mode \in ModeArgs :
       /\ f \in ConvertFns => mode = "undefined"
       /\ f \notin ConvertFns => s = 1
       /\ caller' = [cmd |-> "api", flag |-> "none", step |-> 0]
       /\ Enter(f, mode, IF f \in ConvertFns THEN s ELSE 0,
                IF f = "convertToSRT"
                THEN (IF s = 1 THEN "kr.srt" ELSE "ch.srt")
                ELSE IF f = "convertToTXT"
                THEN (IF s = 1 THEN "kr.txt" ELSE "ch.txt")
                ELSE IF f = "createCombinedSRT" THEN "combined.srt"
                ELSE "combined.txt")
  /\ UNCHANGED << file1, file2, cliStatus, out, log, parked >>

\* cli.js: the action of "combine" or "default" starts; flag is the value
\* given with -m on the command line ("none": no -m)
CliStart ==
  /\ pc = "idle" /\ caller.cmd = "none" /\ cliStatus = "none"
  /\ \E cmd \in {"combine", "default"} :
       /\ caller' = [cmd |-> cmd, flag |-> "none", step |-> 1]
       /\ Enter(CliSteps(cmd)[1].f, "undefined", CliSteps(cmd)[1].src,
                CliSteps(cmd)[1].path)
  /\ cliStatus' = "running"
  /\ UNCHANGED << file1, file2, out, log, parked >>

\* cli.js declares no -m option for either command and never calls
\* allowUnknownOption: given -m <mode>, program.parse stops with
\* "unknown option" and exit status 1 before the action runs
CliUnknownOption ==
  /\ pc = "idle" /\ caller.cmd = "none" /\ cliStatus = "none"
  /\ \E cmd \in {"combine", "default"}, flag \in {"paired", "timeline"} :
       caller' = [cmd |-> cmd, flag |-> flag, step |-> 0]
  /\ cliStatus' = "exit1"
  /\ UNCHANGED << file1, file2, fn, modeArg, src, outPath, pc, locals, out,
                  log, parked >>

\* await fs.readFile(xmlFile1 / xmlFilePath) completes
ReadFile1 ==
  /\ pc = "read1"
  /\ xmlData1' = IF src = 2 THEN file2 ELSE file1
  /\ pc' = IF fn \in ConvertFns THEN "build" ELSE "read2"
  /\ UNCHANGED << file1, file2, caller, cliStatus, fn, modeArg, src, outPath,
                  xmlData2, tickRate1, tickRate2, subtitles1, subtitles2,
                  mergedSubtitles, i, j, index, startJ, endJ, bestMatchIndex,
                  minTimeDiff, examined, comparisons,
                  content, out, log, parked >>

\* await fs.readFile(xmlFile2) completes
ReadFile2 ==
  /\ pc = "read2"
  /\ xmlData2' = file2
  /\ pc' = "build"
  /\ UNCHANGED << file1, file2, caller, cliStatus, fn, modeArg, src, outPath,
                  xmlData1, tickRate1, tickRate2, subtitles1, subtitles2,
                  mergedSubtitles, i, j, index, startJ, endJ, bestMatchIndex,
                  minTimeDiff, examined, comparisons,
                  content, out, log, parked >>

\* a variant whose catch block writes what there is before it rethrows
ReadFail_WritesAnyway ==
  /\ pc \in {"read1", "read2"}
  /\ pc' = "threw"
  /\ out' = [out EXCEPT ![outPath] = [written |-> TRUE, content |-> content]]
  /\ log' = Append(log, LogLine("error", "Error in", fn))
  /\ UNCHANGED << file1, file2, caller, cliStatus, fn, modeArg, src, outPath,
                  locals, parked >>

\* fs.readFile rejects: the catch block logs and rethrows
ReadFail ==
  /\ pc \in {"read1", "read2"}
  /\ pc' = "threw"
  /\ log' = Append(log, LogLine("error", "Error in", fn))
  /\ UNCHANGED << file1, file2, caller, cliStatus, fn, modeArg, src, outPath,
                  locals, out, parked >>

\* tick rates, extraction, sorting / merging: the code between the last
\* read and the loop
Build ==
  /\ pc = "build"
  /\ pc' = "loop"
  /\ i' = 0 /\ j' = 0 /\ index' = 1 /\ content' = <<>>
  /\ tickRate1' = IF fn \in SrtFns THEN TickRateOf(xmlData1) ELSE 0
  /\ tickRate2' = IF fn \in SrtFns \ ConvertFns THEN TickRateOf(xmlData2)
                  ELSE 0
  /\ subtitles1' = IF fn \in PairedFns
                   THEN SortByBegin(extractSubtitlesWithRegex(xmlData1))
                   ELSE extractSubtitlesWithRegex(xmlData1)
  /\ subtitles2' = IF fn \in PairedFns
                   THEN SortByBegin(extractSubtitlesWithRegex(xmlData2))
                   ELSE IF fn \in TimelineFns
                   THEN extractSubtitlesWithRegex(xmlData2)
                   ELSE <<>>
  /\ mergedSubtitles' =
       IF fn \in TimelineFns
       THEN SortMerged(MergeSubtitles(extractSubtitlesWithRegex(xmlData1),
                                      extractSubtitlesWithRegex(xmlData2),
                                      TickRateOf(xmlData1),
                                      TickRateOf(xmlData2),
                                      fn \in SrtFns))
       ELSE <<>>
  /\ UNCHANGED << file1, file2, caller, cliStatus, fn, modeArg, src, outPath,
                  xmlData1, xmlData2, startJ, endJ, bestMatchIndex,
                  minTimeDiff, examined, comparisons,
                  out, log, parked >>

\* the array the loop of the executing function runs over
LoopLen ==
  IF fn \in TimelineFns THEN Len(mergedSubtitles) ELSE Len(subtitles1)

\* one callback of subtitles.forEach in convertToSRT / convertToTXT
ConvertStep ==
  /\ pc = "loop" /\ fn \in ConvertFns /\ i < Len(subtitles1)
  /\ LET subtitle == subtitles1[i + 1]
     IN content' = Append(content,
          IF fn = "convertToSRT"
          THEN SrtEntry(i + 1, subtitle.begin, subtitle.end, tickRate1,
                        << subtitle.text >>)
          ELSE TxtEntry(<< subtitle.text >>))
  /\ i' = i + 1
  /\ UNCHANGED << file1, file2, caller, cliStatus, fn, modeArg, src, outPath,
                  pc, xmlData1, xmlData2, tickRate1, tickRate2, subtitles1,
                  subtitles2, mergedSubtitles, j, index, startJ, endJ,
                  bestMatchIndex, minTimeDiff, examined, comparisons,
                  out, log, parked >>

\* one iteration of for (i ...) in createCombinedSRTPaired / TXTPaired
PairedStep ==
  /\ pc = "loop" /\ fn \in PairedFns /\ i < Len(subtitles1)
  /\ LET subtitle1 == subtitles1[i + 1]
         startTime1 == parseInt(subtitle1.begin)
         sJ == WindowStart(j)
         eJ == WindowEnd(sJ, Len(subtitles2))
         best == ScanWindow(sJ, eJ, startTime1, subtitles2, NoBest)
         texts == PairedTexts(subtitle1, subtitles2, best)
     IN /\ startJ' = sJ /\ endJ' = eJ
        /\ bestMatchIndex' = best.bestMatchIndex
        /\ minTimeDiff' = best.minTimeDiff
        /\ examined' = best.examined
        /\ comparisons' = comparisons + Len(best.examined)
        /\ content' = Append(content,
             IF fn \in SrtFns
             THEN SrtEntry(index, subtitle1.begin, subtitle1.end, tickRate1,
                           texts)
             ELSE TxtEntry(texts))
        /\ j' = IF Accepts(best) THEN best.bestMatchIndex + 1 ELSE j
  /\ index' = IF fn \in SrtFns THEN index + 1 ELSE index
  /\ i' = i + 1
  /\ UNCHANGED << file1, file2, caller, cliStatus, fn, modeArg, src, outPath,
                  pc, xmlData1, xmlData2, tickRate1, tickRate2, subtitles1,
                  subtitles2, mergedSubtitles, out, log, parked >>

\* one iteration of for (i ...) in createCombinedSRTTimeline / TXTTimeline
TimelineStep ==
  /\ pc = "loop" /\ fn \in TimelineFns /\ i < Len(mergedSubtitles)
  /\ LET subtitle == mergedSubtitles[i + 1]
     IN content' = Append(content,
          IF fn \in SrtFns
          THEN SrtEntry(index, subtitle.begin, subtitle.end,
                        subtitle.tickRate, << subtitle.text >>)
          ELSE TxtEntry(<< subtitle.text >>))
  /\ index' = IF fn \in SrtFns THEN index + 1 ELSE index
  /\ i' = i + 1
  /\ UNCHANGED << file1, file2, caller, cliStatus, fn, modeArg, src, outPath,
                  pc, xmlData1, xmlData2, tickRate1, tickRate2, subtitles1,
                  subtitles2, mergedSubtitles, j, startJ, endJ,
                  bestMatchIndex, minTimeDiff, examined, comparisons,
                  out, log, parked >>

\* fs.writeFile replaces the content of the file; the variant appends
WriteFile_Appends ==
  /\ pc = "loop" /\ i = LoopLen
  /\ out' = [out EXCEPT ![outPath] =
               [written |-> TRUE, content |-> out[outPath].content \o content]]
  /\ pc' = "returned"
  /\ log' = Append(log, LogLine("log", "Successfully wrote", outPath))
  /\ UNCHANGED << file1, file2, caller, cliStatus, fn, modeArg, src, outPath,
                  locals, parked >>

\* the loop is over: await fs.writeFile(outputFilePath, content) completes
WriteFile ==
  /\ pc = "loop" /\ i = LoopLen
  /\ out' = [out EXCEPT ![outPath] = [written |-> TRUE, content |-> content]]
  /\ pc' = "returned"
  /\ log' = Append(log, LogLine("log", "Successfully wrote", outPath))
  /\ UNCHANGED << file1, file2, caller, cliStatus, fn, modeArg, src, outPath,
                  locals, parked >>

\* fs.writeFile rejects: the catch block logs and rethrows
WriteFail ==
  /\ pc = "loop" /\ i = LoopLen
  /\ pc' = "threw"
  /\ log' = Append(log, LogLine("error", "Error in", fn))
  /\ UNCHANGED << file1, file2, caller, cliStatus, fn, modeArg, src, outPath,
                  locals, out, parked >>

\* cli.js: the awaited call returned; the action goes on to its next call,
\* or ends
CliNext ==
  /\ pc = "returned" /\ cliStatus = "running"
  /\ IF caller.step < Len(CliSteps(caller.cmd))
     THEN LET st == CliSteps(caller.cmd)[caller.step + 1]
          IN /\ caller' = [caller EXCEPT !.step = caller.step + 1]
             /\ Enter(st.f, "undefined", st.src, st.path)
             /\ UNCHANGED << cliStatus, log >>
     ELSE /\ cliStatus' = "exit0"
          /\ log' = Append(log, LogLine("log", "Successfully", caller.cmd))
          /\ UNCHANGED << caller, fn, modeArg, src, outPath, pc, locals >>
  /\ UNCHANGED << file1, file2, out, parked >>

\* cli.js: catch (error) { console.error(...); process.exit(1); }
CliCatch ==
  /\ pc = "threw" /\ cliStatus = "running"
  /\ cliStatus' = "exit1"
  /\ log' = Append(log, LogLine("error", "Error:", caller.cmd))
  /\ UNCHANGED << file1, file2, caller, fn, modeArg, src, outPath, pc,
                  locals, out, parked >>

Next ==
  \/ ApiCall
  \/ CliStart
  \/ CliUnknownOption
  \/ ReadFile1
  \/ ReadFile2
  \/ ReadFail
  \/ Build
  \/ ConvertStep
  \/ PairedStep
  \/ TimelineStep
  \/ WriteFile
  \/ WriteFail
  \/ CliNext
  \/ CliCatch

Spec == Init /\ [][Next]_vars

SpecWindow == InitWindow /\ [][Next]_vars

SpecMalformed == InitMalformed /\ [][Next]_vars

(* ------------- a program that starts two calls together --------------- *)
\* the executing invocation stands at an await (fs.readFile, fs.writeFile)
\* or is over; only there can the event loop run something else
AtAwait ==
  \/ pc \in {"read1", "read2", "returned", "threw"}
  \/ pc = "loop" /\ i = LoopLen

\* the arguments and locals of the executing invocation
Context ==
  [fn |-> fn, modeArg |-> modeArg, src |-> src, outPath |-> outPath,
   pc |-> pc, xmlData1 |-> xmlData1, xmlData2 |-> xmlData2,
   tickRate1 |-> tickRate1, tickRate2 |-> tickRate2,
   subtitles1 |-> subtitles1, subtitles2 |-> subtitles2,
   mergedSubtitles |-> mergedSubtitles, i |-> i, j |-> j, index |-> index,
   startJ |-> startJ, endJ |-> endJ, bestMatchIndex |-> bestMatchIndex,
   minTimeDiff |-> minTimeDiff, examined |-> examined,
   comparisons |-> comparisons, content |-> content]

\* the output file the program names for a call
OutPathFor(f, s) ==
  IF f = "convertToSRT" THEN (IF s = 1 THEN "kr.srt" ELSE "ch.srt")
  ELSE IF f = "convertToTXT" THEN (IF s = 1 THEN "kr.txt" ELSE "ch.txt")
  ELSE IF f = "createCombinedSRT" THEN "combined.srt"
  ELSE "combined.txt"

\* the program calls a second function, on another output file, without
\* awaiting the first: the first invocation is suspended at its first
\* await and the second runs up to its own
StartSecond ==
  /\ caller.cmd = "api" /\ caller.step = 0
  /\ pc = "read1" /\ parked = <<>>
  /\ \E f \in ApiFns, s \in {1, 2}, mode \in {"paired", "timeline"} :
       /\ f \in ConvertFns => mode = "timeline"
       /\ f \notin ConvertFns => s = 1
       /\ OutPathFor(f, s) # outPath
       /\ Enter(f, IF f \in ConvertFns THEN "undefined" ELSE mode,
                IF f \in ConvertFns THEN s ELSE 0, OutPathFor(f, s))
  /\ parked' = << Context >>
  /\ caller' = [caller EXCEPT !.step = 1]
  /\ UNCHANGED << file1, file2, cliStatus, out, log >>

\* a variant in which the content under construction is one variable of
\* the module instead of a local of each invocation
Switch_SharedContent ==
  /\ caller.cmd = "api" /\ parked # <<>> /\ AtAwait
  /\ parked' = << Context >>
  /\ fn' = parked[1].fn /\ modeArg' = parked[1].modeArg
  /\ src' = parked[1].src /\ outPath' = parked[1].outPath
  /\ pc' = parked[1].pc
  /\ xmlData1' = parked[1].xmlData1 /\ xmlData2' = parked[1].xmlData2
  /\ tickRate1' = parked[1].tickRate1 /\ tickRate2' = parked[1].tickRate2
  /\ subtitles1' = parked[1].subtitles1
  /\ subtitles2' = parked[1].subtitles2
  /\ mergedSubtitles' = parked[1].mergedSubtitles
  /\ i' = parked[1].i /\ j' = parked[1].j /\ index' = parked[1].index
  /\ startJ' = parked[1].startJ /\ endJ' = parked[1].endJ
  /\ bestMatchIndex' = parked[1].bestMatchIndex
  /\ minTimeDiff' = parked[1].minTimeDiff
  /\ examined' = parked[1].examined
  /\ comparisons' = parked[1].comparisons
  /\ UNCHANGED << file1, file2, caller, cliStatus, out, log, content >>

\* the executing invocation stands at an await or is over, and the event
\* loop resumes the other one where it was suspended: each invocation
\* keeps its own arguments and locals
Switch ==
  /\ caller.cmd = "api" /\ parked # <<>> /\ AtAwait
  /\ parked' = << Context >>
  /\ fn' = parked[1].fn /\ modeArg' = parked[1].modeArg
  /\ src' = parked[1].src /\ outPath' = parked[1].outPath
  /\ pc' = parked[1].pc
  /\ xmlData1' = parked[1].xmlData1 /\ xmlData2' = parked[1].xmlData2
  /\ tickRate1' = parked[1].tickRate1 /\ tickRate2' = parked[1].tickRate2
  /\ subtitles1' = parked[1].subtitles1
  /\ subtitles2' = parked[1].subtitles2
  /\ mergedSubtitles' = parked[1].mergedSubtitles
  /\ i' = parked[1].i /\ j' = parked[1].j /\ index' = parked[1].index
  /\ startJ' = parked[1].startJ /\ endJ' = parked[1].endJ
  /\ bestMatchIndex' = parked[1].bestMatchIndex
  /\ minTimeDiff' = parked[1].minTimeDiff
  /\ examined' = parked[1].examined
  /\ comparisons' = parked[1].comparisons
  /\ content' = parked[1].content
  /\ UNCHANGED << file1, file2, caller, cliStatus, out, log >>

\* a step of the executing invocation; between two awaits it is not
\* interrupted
NextConcurrent ==
  \/ ApiCall
  \/ StartSecond
  \/ Switch
  \/ ReadFile1
  \/ ReadFile2
  \/ ReadFail
  \/ Build
  \/ ConvertStep
  \/ PairedStep
  \/ TimelineStep
  \/ WriteFile
  \/ WriteFail

SpecConcurrent == InitConcurrent /\ [][NextConcurrent]_vars

(* ------------------- a program that calls twice ----------------------- *)
\* the output file the program names for each function
PathOf(f) == IF f = "createCombinedSRT" THEN "combined.srt" ELSE "combined.txt"

\* a program calls createCombinedSRT or createCombinedTXT with a mode
ApiCallCombined ==
  /\ pc = "idle" /\ caller.cmd = "none" /\ cliStatus = "none"
  /\ \E f \in {"createCombinedSRT", "createCombinedTXT"},
        mode \in {"paired", "timeline"} :
       /\ caller' = [cmd |-> "api", flag |-> Dispatch(f, mode), step |-> 0]
       /\ Enter(f, mode, 0, PathOf(f))
  /\ UNCHANGED << file1, file2, cliStatus, out, log, parked >>

\* after the call has returned the program calls again on the same files
\* with the same mode: the same function, or the one of the other format;
\* caller.flag keeps the function of the first call
ApiCallAgain ==
  /\ pc = "returned" /\ caller.cmd = "api" /\ caller.step = 0
  /\ \E f \in {"createCombinedSRT", "createCombinedTXT"} :
       /\ caller' = [caller EXCEPT !.step = 1]
       /\ Enter(f, modeArg, 0, PathOf(f))
  /\ UNCHANGED << file1, file2, cliStatus, out, log, parked >>

NextRerun ==
  \/ ApiCallCombined
  \/ ApiCallAgain
  \/ ReadFile1
  \/ ReadFile2
  \/ ReadFail
  \/ Build
  \/ PairedStep
  \/ TimelineStep
  \/ WriteFile
  \/ WriteFail

SpecRerun == InitRerun /\ [][NextRerun]_vars

(* ----------------------- vocabulary of the claims --------------------- *)
\* the cue sequences A and B handed to a strategy
CuesA == file1.p
CuesB == file2.p

\* the input cue a text block comes from, its track and its start ticks
TrackOf(text) == text[1]
PosOf(text) == text[2]
InputCue(text) ==
  IF TrackOf(text) = "a" THEN file1.p[PosOf(text)] ELSE file2.p[PosOf(text)]
TicksOf(text) == parseInt(InputCue(text).begin)
RateOf(text) ==
  IF TrackOf(text) = "a" THEN TickRateOf(file1) ELSE TickRateOf(file2)

RECURSIVE GCD(_, _)
GCD(a, b) == IF b = 0 THEN a ELSE GCD(b, a % b)

\* normalized start time ticks / tickRate in seconds, as a reduced fraction
NormOf(text) ==
  LET g == GCD(TicksOf(text), RateOf(text))
  IN << TicksOf(text) \div g, RateOf(text) \div g >>
NormLeq(x, y) == x[1] * y[2] <= y[1] * x[2]
\* |x - y| < 1 second
NormGapBelowOneSecond(x, y) == Abs(x[1] * y[2] - y[1] * x[2]) < x[2] * y[2]

AllTexts == { CuesA[k].text : k \in 1..Len(CuesA) }
              \cup { CuesB[k].text : k \in 1..Len(CuesB) }

TimelineDone == fn \in TimelineFns /\ pc = "returned"
PairedDone == fn \in PairedFns /\ pc = "returned"
Written == out[outPath].content

(* -------------------------------- C1 ---------------------------------- *)
\* C1: a finished timeline merge (SRT or TXT) wrote exactly |A| + |B|
\* entries, every entry carries exactly one text, and every cue of A and of
\* B is the text of exactly one entry.
C1_TimelineKeepsEveryCue ==
  TimelineDone =>
    /\ out[outPath].written
    /\ Len(Written) = Len(CuesA) + Len(CuesB)
    /\ \A e \in 1..Len(Written) : Len(Written[e].texts) = 1
    /\ \A t \in AllTexts :
         Cardinality({e \in 1..Len(Written) : Written[e].texts[1] = t}) = 1

C1_Witness ==
  /\ TimelineDone
  /\ Len(CuesA) = 2 /\ Len(CuesB) >= 2
  /\ TicksOf(<<"a", 1>>) = TicksOf(<<"b", 1>>)
  /\ Len(Written) = Len(CuesA) + Len(CuesB)

(* -------------------------------- C2 ---------------------------------- *)
\* C2: the entries of a timeline merge are in non-decreasing order of
\* normalized start time (ticks divided by the tick rate of the cue's own
\* file), and of two cues of different tracks with the same normalized
\* start time the one of track A comes first.
C2_TimelineNormalizedOrder ==
  TimelineDone =>
    \A p, q \in 1..Len(Written) :
      p < q =>
        LET tp == Written[p].texts[1]
            tq == Written[q].texts[1]
        IN /\ NormLeq(NormOf(tp), NormOf(tq))
           /\ (NormOf(tp) = NormOf(tq) /\ TrackOf(tp) # TrackOf(tq))
                => TrackOf(tp) = "a"

C4_PairedOnePerACue ==
  PairedDone =>
    /\ out[outPath].written
    /\ Len(Written) = Len(CuesA)
    /\ \A k \in 1..Len(CuesA) :
         Cardinality({e \in 1..Len(Written) :
                        Written[e].texts[1] = CuesA[k].text}) = 1
    /\ \A p, q \in 1..Len(Written) :
         p < q =>
           LET tp == Written[p].texts[1]
               tq == Written[q].texts[1]
           IN \/ TicksOf(tp) < TicksOf(tq)
              \/ (TicksOf(tp) = TicksOf(tq) /\ PosOf(tp) < PosOf(tq))
    /\ fn \in SrtFns =>
         \A e \in 1..Len(Written) :
           LET cue == InputCue(Written[e].texts[1])
           IN /\ Written[e].start
                   = convertTimeToSRT(cue.begin, TickRateOf(file1))
              /\ Written[e].end
                   = convertTimeToSRT(cue.end, TickRateOf(file1))

C4_Witness ==
  /\ PairedDone /\ fn \in SrtFns
  /\ Len(CuesA) = 2 /\ Len(CuesB) = 2
  /\ TicksOf(<<"a", 1>>) > TicksOf(<<"a", 2>>)
  /\ TickRateOf(file1) # TickRateOf(file2)
  /\ Written[1].texts[1] = <<"a", 2>>
  /\ Len(Written[1].texts) = 2

(* -------------------------------- C5 ---------------------------------- *)
\* C5: in a finished paired match, every entry that carries a B text pairs
\* two cues whose normalized start times (each in its own file's tick
\* rate) are less than one second apart.
C5_MatchedWithinOneSecond ==
  PairedDone =>
    \A e \in 1..Len(Written) :
      Len(Written[e].texts) = 2 =>
        NormGapBelowOneSecond(NormOf(Written[e].texts[1]),
                              NormOf(Written[e].texts[2]))

(* -------------------------------- C6 ---------------------------------- *)
\* C6: in a finished paired match no cue of B is the second text block of
\* two different entries.
C6_NoBCueMatchedTwice ==
  PairedDone =>
    \A p, q \in 1..Len(Written) :
      (p < q /\ Len(Written[p].texts) = 2 /\ Len(Written[q].texts) = 2)
        => Written[p].texts[2] # Written[q].texts[2]

(* -------------------------------- C7 ---------------------------------- *)
\* C7: every iteration of the paired loop leaves the cursor j where it was
\* or moves it forward, and starts its window at most Backtrack positions
\* below the j it began with (and never above it).
C7_CursorNeverDecreases ==
  [][ (pc = "loop" /\ fn \in PairedFns /\ i' = i + 1)
        => /\ j' >= j
           /\ startJ' <= j
           /\ startJ' >= j - Backtrack ]_vars

\* the second iteration began with j = 3, stepped its window back to 1 and
\* accepted the cue at index 2 again
C7_Witness ==
  /\ fn \in PairedFns /\ pc = "loop"
  /\ i = 2 /\ startJ = 1 /\ bestMatchIndex = 2 /\ j = 3
  /\ Len(content[2].texts) = 2

(* -------------------------------- C8 ---------------------------------- *)
\* C8: a paired match with an empty B writes one entry per A cue holding
\* that cue's text alone and never selects a candidate; a paired match with
\* an empty A writes an empty output.
C8_PairedEmptyTrack ==
  /\ (fn \in PairedFns /\ pc = "loop" /\ Len(subtitles2) = 0)
       => /\ bestMatchIndex = -1
          /\ \A e \in 1..Len(content) : Len(content[e].texts) = 1
  /\ (PairedDone /\ Len(CuesB) = 0)
       => /\ out[outPath].written
          /\ Len(Written) = Len(CuesA)
          /\ \A e \in 1..Len(Written) :
               /\ Len(Written[e].texts) = 1
               /\ TrackOf(Written[e].texts[1]) = "a"
  /\ (PairedDone /\ Len(CuesA) = 0)
       => /\ out[outPath].written
          /\ Written = <<>>

C8_Witness ==
  /\ PairedDone
  /\ Len(CuesB) = 0 /\ Len(CuesA) = 2
  /\ out[outPath].written
  /\ Len(Written) = 2

(* -------------------------------- C9 ---------------------------------- *)
\* C9: createCombinedSRT / createCombinedTXT run the paired function
\* exactly when their mode argument is "paired"; a CLI command given
\* -m <mode> runs (it is not turned away) and runs the paired functions
\* exactly when the mode given is "paired".
C9_ModeSelection ==
  /\ (caller.cmd = "api" /\ fn \in PairedFns \cup TimelineFns)
       => (fn \in PairedFns <=> modeArg = "paired")
  /\ caller.cmd \in {"combine", "default"}
       => /\ ~(cliStatus = "exit1" /\ caller.step = 0)
          /\ fn \in PairedFns \cup TimelineFns
               => (fn \in PairedFns <=> caller.flag = "paired")

(* -------------------------------- C10 --------------------------------- *)
\* C10: the entries of every SRT content, while it is built and once it is
\* written (single-file conversion, timeline merge, paired match), are
\* numbered 1, 2, ..., N in output order.
C10_IndicesContiguous ==
  /\ (fn \in SrtFns /\ pc \in {"loop", "returned", "threw"})
       => \A e \in 1..Len(content) : content[e].index = e
  /\ \A path \in {"kr.srt", "ch.srt", "combined.srt"} :
       out[path].written
         => \A e \in 1..Len(out[path].content) :
              out[path].content[e].index = e

C10_Witness ==
  /\ caller.cmd = "default" /\ cliStatus = "exit0"
  /\ Len(out["kr.srt"].content) = 2
  /\ Len(out["ch.srt"].content) = 2
  /\ Len(out["combined.srt"].content) = 4
  /\ out["combined.srt"].content[4].index = 4

(* ------------------- vocabulary of the paired pass -------------------- *)
\* an iteration of the paired loop is being completed by this step
PairedIteration == pc = "loop" /\ fn \in PairedFns /\ i' = i + 1

\* the paired function is in or past its loop
InPairedPass == fn \in PairedFns /\ pc \in {"loop", "returned", "threw"}

\* |start of A cue a - start of B cue at index k|, 0-based positions in
\* the arrays the loop runs over
StartDiff(a, k) ==
  Abs(parseInt(subtitles1[a + 1].begin) - parseInt(subtitles2[k + 1].begin))

(* -------------------------------- C14 --------------------------------- *)
\* C14: an iteration of the paired loop that starts with cursor j examines
\* exactly the B indices k with max(0, j-2) <= k < min(len(B),
\* max(0, j-2) + 10), each once and in ascending order; so it makes at most
\* 10 comparisons, and after n iterations at most 10 * n were made.
C14_SearchRange ==
  [][ PairedIteration
        => LET lo == Max(0, j - 2)
               hi == Min(Len(subtitles2), lo + 10)
           IN /\ examined' = [n \in 1..(hi - lo) |-> lo + n - 1]
              /\ Len(examined') <= 10
              /\ comparisons' = comparisons + Len(examined')
              /\ comparisons' <= 10 * i' ]_vars

\* the fourth iteration began with j = 3 in a B of LongLen cues: it
\* examined the ten indices 1..10 and stopped short of the end of B
C14_Witness ==
  /\ InPairedPass /\ i = 4
  /\ startJ = 1 /\ endJ = 11 /\ Len(subtitles2) > endJ
  /\ examined = << 1, 2, 3, 4, 5, 6, 7, 8, 9, 10 >>
  /\ comparisons = 40

C17_NeverBeyondEight ==
  [][ (PairedIteration /\ Len(content'[i + 1].texts) = 2)
        => bestMatchIndex' <= j + 8 ]_vars

\* C17, amended: an iteration that starts with cursor j never takes as its
\* match a B cue at an index above j + 9; the candidates are the indices
\* below max(0, j-2) + 10, so above j + 7 once j >= 2.
C17_NeverBeyondWindow ==
  [][ (PairedIteration /\ Len(content'[i + 1].texts) = 2)
        => /\ bestMatchIndex' <= j + 9
           /\ bestMatchIndex' < Max(0, j - 2) + 10
           /\ j >= 2 => bestMatchIndex' <= j + 7 ]_vars

\* the first iteration (j = 0) matched the B cue at index 9
C17_Witness ==
  /\ InPairedPass /\ i = 1
  /\ startJ = 0 /\ bestMatchIndex = 9 /\ minTimeDiff = 0
  /\ Len(content[1].texts) = 2
  /\ j = 10

Aligning == fn \in PairedFns \cup TimelineFns /\ pc \in {"loop", "returned"}

\* the elements of a sequence
Range(s) == { s[k] : k \in 1..Len(s) }

\* ascending in begin ticks, cues of equal begin in document order
SortedByBegin(subs) ==
  \A k, l \in 1..Len(subs) :
    k < l => \/ BeginTicks(subs[k]) < BeginTicks(subs[l])
             \/ /\ BeginTicks(subs[k]) = BeginTicks(subs[l])
                /\ PosOf(subs[k].text) < PosOf(subs[l].text)

\* C19 as stated: after a timeline merge or a paired match the cue arrays
\* A and B hold the cues they held when they were extracted, in the same
\* order.
C19_CueArraysUntouched ==
  Aligning
    => /\ subtitles1 = extractSubtitlesWithRegex(xmlData1)
       /\ subtitles2 = extractSubtitlesWithRegex(xmlData2)

\* C19, amended: a timeline merge leaves the cue arrays A and B as they
\* were extracted; a paired match leaves each holding the same cues, but
\* reordered in place: ascending in begin ticks, cues of equal begin in
\* their extraction order.  The data read from the input files is not
\* changed by either.
C19_CueArraysKeptOrSorted ==
  Aligning
    => /\ xmlData1 = file1 /\ xmlData2 = file2
       /\ fn \in TimelineFns
            => /\ subtitles1 = extractSubtitlesWithRegex(xmlData1)
               /\ subtitles2 = extractSubtitlesWithRegex(xmlData2)
       /\ fn \in PairedFns
            => /\ Len(subtitles1) = Len(extractSubtitlesWithRegex(xmlData1))
               /\ Range(subtitles1) = Range(extractSubtitlesWithRegex(xmlData1))
               /\ SortedByBegin(subtitles1)
               /\ Len(subtitles2) = Len(extractSubtitlesWithRegex(xmlData2))
               /\ Range(subtitles2) = Range(extractSubtitlesWithRegex(xmlData2))
               /\ SortedByBegin(subtitles2)

\* a paired match whose A came out of extraction as (10000000t, 0t) and
\* was reordered
C19_Witness ==
  /\ fn \in PairedFns /\ pc = "returned"
  /\ Len(subtitles1) = 2
  /\ BeginTicks(extractSubtitlesWithRegex(xmlData1)[1]) = 10000000
  /\ BeginTicks(extractSubtitlesWithRegex(xmlData1)[2]) = 0
  /\ subtitles1[1].text = <<"a", 2>> /\ subtitles1[2].text = <<"a", 1>>

C18_SrtTxtAgree ==
  (out["combined.srt"].written /\ out["combined.txt"].written)
    => LET srt == out["combined.srt"].content
           txt == out["combined.txt"].content
       IN /\ Len(srt) = Len(txt)
          /\ \A e \in 1..Len(srt) :
               /\ txt[e].texts = srt[e].texts
               /\ DOMAIN txt[e] = {"texts"}
               /\ DOMAIN srt[e] = {"index", "start", "end", "texts"}

\* both outputs of a paired match over tracks of different tick rates,
\* with a matched and an unmatched entry
C18_Witness ==
  /\ out["combined.srt"].written /\ out["combined.txt"].written
  /\ fn \in PairedFns /\ pc = "returned"
  /\ TickRateOf(file1) # TickRateOf(file2)
  /\ Len(out["combined.txt"].content) = 2
  /\ Len(out["combined.txt"].content[1].texts) = 2
  /\ Len(out["combined.txt"].content[2].texts) = 1

(* -------------------------------- C12 --------------------------------- *)
\* the start of a <p> element can be normalized: its begin is a tick count
\* in decimal digits and the tick rate of its file is absent (the default
\* applies) or a positive number in decimal digits
ValidTickRate(file) ==
  \/ Len(file.tickRate) = 0
  \/ IsDigits(file.tickRate[1]) /\ parseInt(file.tickRate[1]) > 0
Normalizable(file, p) == IsDigits(p.begin) /\ ValidTickRate(file)

\* the text blocks of the written output
WrittenTexts ==
  UNION { { Written[e].texts[t] : t \in 1..Len(Written[e].texts) }
          : e \in 1..Len(Written) }

\* a skipped-cue diagnostic was given out
SkippedCueReported == \E n \in 1..Len(log) : log[n].what = "Skipped cue"

\* C12: once a timeline merge has returned, no cue whose start cannot be
\* normalized is in the output, a skipped-cue diagnostic was reported if
\* there is such a cue, and every other cue of both tracks is in the
\* output.
C12_BadCuesSkippedAndReported ==
  (fn \in TimelineFns /\ pc = "returned")
    => \A file \in {file1, file2} :
         \A k \in 1..Len(file.p) :
           IF Normalizable(file, file.p[k])
           THEN file.p[k].text \in WrittenTexts
           ELSE /\ file.p[k].text \notin WrittenTexts
                /\ SkippedCueReported

(* -------------------------------- C13 --------------------------------- *)
\* what a function writes when it runs alone, from its first statement to
\* its last without another invocation in between
RECURSIVE PairedAlone(_, _, _, _, _, _)
PairedAlone(f, subs1, subs2, rate1, ii, jj) ==
  IF ii >= Len(subs1) THEN <<>>
  ELSE LET subtitle1 == subs1[ii + 1]
           sJ == WindowStart(jj)
           eJ == WindowEnd(sJ, Len(subs2))
           best == ScanWindow(sJ, eJ, parseInt(subtitle1.begin), subs2,
                              NoBest)
           texts == PairedTexts(subtitle1, subs2, best)
       IN << IF f \in SrtFns
             THEN SrtEntry(ii + 1, subtitle1.begin, subtitle1.end, rate1,
                           texts)
             ELSE TxtEntry(texts) >>
          \o PairedAlone(f, subs1, subs2, rate1, ii + 1,
                         IF Accepts(best) THEN best.bestMatchIndex + 1
                         ELSE jj)

AloneOutput(f, s) ==
  LET x1 == IF s = 2 THEN file2 ELSE file1
      subs1 == extractSubtitlesWithRegex(x1)
      subs2 == extractSubtitlesWithRegex(file2)
      merged == SortMerged(MergeSubtitles(subs1, subs2, TickRateOf(x1),
                                          TickRateOf(file2), f \in SrtFns))
  IN IF f \in ConvertFns
     THEN [k \in 1..Len(subs1) |->
             IF f \in SrtFns
             THEN SrtEntry(k, subs1[k].begin, subs1[k].end, TickRateOf(x1),
                           << subs1[k].text >>)
             ELSE TxtEntry(<< subs1[k].text >>)]
     ELSE IF f \in TimelineFns
     THEN [k \in 1..Len(merged) |->
             IF f \in SrtFns
             THEN SrtEntry(k, merged[k].begin, merged[k].end,
                           merged[k].tickRate, << merged[k].text >>)
             ELSE TxtEntry(<< merged[k].text >>)]
     ELSE PairedAlone(f, SortByBegin(subs1), SortByBegin(subs2),
                      TickRateOf(x1), 0, 0)

\* the invocations of the program: the executing one and the suspended one
Invocations == { Context } \cup { parked[n] : n \in 1..Len(parked) }

\* C13: when two calls on different output files interleave at their
\* awaits, each invocation that has returned has written to its output file
\* exactly what its function writes when run alone; an invocation that
\* has not returned has written nothing, and no other output file is
\* touched.
C13_ConcurrentAsAlone ==
  caller.cmd = "api"
    => /\ \A c \in Invocations :
            IF c.pc = "returned"
            THEN /\ out[c.outPath].written
                 /\ out[c.outPath].content = AloneOutput(c.fn, c.src)
            ELSE ~out[c.outPath].written
       /\ \A q \in OutPaths :
            out[q].written => \E c \in Invocations : c.outPath = q

\* a paired match and a timeline merge were started together and ran
\* interleaved; the merge wrote its output first, the paired match second,
\* and both have returned
C13_Witness ==
  /\ caller.cmd = "api" /\ caller.step = 1 /\ parked # <<>>
  /\ pc = "returned" /\ fn = "createCombinedSRTPaired"
  /\ parked[1].pc = "returned" /\ parked[1].fn = "createCombinedTXTTimeline"
  /\ Len(log) = 2
  /\ log[1].arg = "combined.txt" /\ log[2].arg = "combined.srt"
  /\ Len(out["combined.srt"].content) = 2
  /\ Len(out["combined.txt"].content) = 3

(* -------------------------------- C21 --------------------------------- *)
\* no entry written so far carries a B text
NothingMatchedYet == \A e \in 1..Len(content) : Len(content[e].texts) = 1

\* the B indices a window that starts at 0 covers
FirstWindow == 0..(Min(Len(subtitles2), 10) - 1)

ExpectedEntries ==
  IF fn \in ConvertFns
  THEN Len(extractSubtitlesWithRegex(IF src = 2 THEN file2 ELSE file1))
  ELSE IF fn \in PairedFns THEN Len(extractSubtitlesWithRegex(file1))
  ELSE Len(extractSubtitlesWithRegex(file1))
         + Len(extractSubtitlesWithRegex(file2))

\* C22: a step that changes an output file is the write at the end of the
\* executing function: its inputs have been read, the whole content has
\* been built, and that content is what the file then holds.  A step in
\* which a read fails throws to the caller and changes no output file, and
\* the output file of the failed call has not been written.  In the CLI
\* command combine, when the SRT step has thrown its error the next step is
\* the exit with status 1: the TXT step is not started, and no combined.txt
\* is written.
C22_FailureLeavesNoOutput ==
  [][ /\ out' # out
        => /\ pc = "loop" /\ i = LoopLen /\ pc' = "returned"
           /\ xmlData1 = (IF src = 2 THEN file2 ELSE file1)
           /\ fn \notin ConvertFns => xmlData2 = file2
           /\ Len(content) = ExpectedEntries
           /\ out' = [out EXCEPT ![outPath] =
                        [written |-> TRUE, content |-> content]]
      /\ (pc \in {"read1", "read2"} /\ pc' = "threw")
           => /\ out' = out
              /\ ~out[outPath].written
              /\ fn' = fn /\ outPath' = outPath
      /\ (caller.cmd = "combine" /\ caller.step = 1 /\ pc = "threw")
           => /\ cliStatus = "running"
              /\ cliStatus' = "exit1"
              /\ fn' = fn /\ pc' = pc /\ caller' = caller
              /\ out' = out
              /\ ~out["combined.srt"].written
              /\ ~out["combined.txt"].written ]_vars

\* combine has exited with status 1 after the second read of its SRT step
\* failed: the first file had been read, and neither output exists
C22_Witness ==
  /\ caller.cmd = "combine" /\ caller.step = 1
  /\ cliStatus = "exit1" /\ pc = "threw"
  /\ fn = "createCombinedSRTTimeline"
  /\ Len(file1.p) = 2 /\ xmlData1 = file1 /\ xmlData2 = NoFile
  /\ Len(file2.p) = 2
  /\ \A q \in OutPaths : ~out[q].written
  /\ Len(log) = 2 /\ log[1].level = "error" /\ log[2].level = "error"

====
